---- MODULE Spec2Model ----
(***************************************************************************)
(* TagResource of silly_blog (src/silly_blog/app/resources/tag.py): the    *)
(* REST handlers list / get / create / update / delete over the Tag table. *)
(* Requests are modelled from the point where the handler body starts,     *)
(* i.e. after the auth.login_required and envelope_json_required           *)
(* decorators have let them through.  Every request runs on its own worker *)
(* with its own database session; the table is shared.  No handler reads   *)
(* a timestamp of its own writes: the clock keeps its initial reading      *)
(* while create / update / delete run, and the list request is checked     *)
(* against tables whose rows carry every timestamp of Times.               *)
(***************************************************************************)
EXTENDS Integers, Sequences, FiniteSets, TLC

VARIABLES
    store,      \* committed rows of the tag table: a set of Row records
    nextId,     \* next primary key the table hands out
    now,        \* the database clock stamped into created_at / updated_at
    dialect,    \* database engine behind SQLAlchemy for this deployment
    pc,         \* pc[w]: position of worker w inside its handler
    req,        \* req[w]: the request worker w is serving
    sess,       \* sess[w]: db.session of worker w (loaded object, pending change)
    resp,       \* resp[w]: the response worker w returned
    err,        \* err[w]: the error the store raised while serving req[w]
    gone,       \* ids for which a delete has answered 204
    late,       \* late[w]: req[w] started after a 204 delete of req[w].id
    listReq,    \* query parameters of the list request
    listResp    \* response of the list request

vars == <<store, nextId, now, dialect, pc, req, sess, resp, err, gone, late,
          listReq, listResp>>

----------------------------------------------------------------------------
(* Bounds of the model                                                     *)

MaxId == 2

MaxTime == 1

MaxRows == 2

(* Program constants: Length(min=1, max=64) of both schemas                *)

MinNameLen == 1

MaxNameLen == 64

\* the two request workers whose handlers interleave
Workers == {"w1", "w2"}

Ids == 1..MaxId

Times == 0..MaxTime

Dialects == {"sqlite", "mysql", "postgresql"}

----------------------------------------------------------------------------
(* Strings are sequences of one-character strings.                         *)

RECURSIVE Rep(_, _)
Rep(c, n) == IF n <= 0 THEN <<>> ELSE Append(Rep(c, n - 1), c)

\* payload names the clients send to create / update
PayloadNames ==
    { <<>>, <<"a">>, Rep("a", MaxNameLen), Rep("a", MaxNameLen + 1) }

\* g.tag: the dictionary under the "tag" key of the request body
Payloads ==
    { [hasName |-> FALSE, name |-> <<>>] }
      \cup { [hasName |-> TRUE, name |-> n] : n \in PayloadNames }

NoPayload == [hasName |-> FALSE, name |-> <<>>]

----------------------------------------------------------------------------
(* The Tag table                                                           *)

Row(i, n, c, u) == [id |-> i, name |-> n, created_at |-> c, updated_at |-> u]

NoRow == Row(0, <<>>, 0, 0)

\* Tag.query.get(tag_id)
QueryGet(s, i) ==
    IF \E r \in s : r.id = i THEN CHOOSE r \in s : r.id = i ELSE NoRow

\* the UNIQUE index on tag.name, as seen by a write of `n` to row `i`
NameTaken(s, n, i) == \E r \in s : r.name = n /\ r.id # i

UniqueNames(s) == \A r1, r2 \in s : r1.name = r2.name => r1.id = r2.id

\* str(ex.orig) of the driver for a violated UNIQUE index
UniqueReason(d) ==
    CASE d = "sqlite" -> <<"UNIQUE", "constraint", "failed:", "tag.name">>
      [] d = "mysql" -> <<"Duplicate", "entry", "for", "key", "name">>
      [] OTHER -> <<"duplicate", "key", "value", "violates", "unique", "constraint">>

\* str(ex.orig) of the driver for any other violated constraint
OtherReason(d) ==
    CASE d = "sqlite" -> <<"FOREIGN", "KEY", "constraint", "failed">>
      [] d = "mysql" -> <<"Cannot", "delete", "or", "update", "a", "parent", "row">>
      [] OTHER -> <<"violates", "foreign", "key", "constraint">>

\* str.lower() on one word of a reason
LowerWord(w) ==
    CASE w = "UNIQUE" -> "unique"
      [] w = "Duplicate" -> "duplicate"
      [] w = "FOREIGN" -> "foreign"
      [] w = "KEY" -> "key"
      [] w = "Cannot" -> "cannot"
      [] OTHER -> w

Lower(reason) == [i \in 1..Len(reason) |-> LowerWord(reason[i])]

\* `word in text` for a whole word
Contains(text, word) == \E i \in 1..Len(text) : text[i] = word

----------------------------------------------------------------------------
(* Responses                                                               *)

Response(st, msg, about, reason, code, tag) ==
    [status |-> st, message |-> msg, about |-> about, reason |-> reason,
     code |-> code, tag |-> tag]

NoResp == Response(0, "", 0, <<>>, "", NoRow)

\* {"tag": tag.to_dict()}
TagResponse(r) == Response(200, "", 0, <<>>, "", r)

\* make_error_response(400, result.errors)
ValidationError == Response(400, "errors", 0, <<>>, "", NoRow)

NotFoundNoId(i) == Response(404, "Tag not found", 0, <<>>, "", NoRow)

\* make_error_response(404, "Tag %r not found" % tag_id)
NotFound(i) == Response(404, "Tag not found", i, <<>>, "", NoRow)

\* make_error_response(409, reason)
Conflict(reason) == Response(409, "", 0, reason, "", NoRow)

\* make_error_response(500, "DB Error", ex.code)
DBError(code) == Response(500, "DB Error", 0, <<>>, code, NoRow)

\* return None, 204
NoContent == Response(204, "", 0, <<>>, "", NoRow)

\* an exception left the handler: the framework's bare 500
Unhandled == Response(500, "Internal Server Error", 0, <<>>, "", NoRow)

----------------------------------------------------------------------------
(* Validation                                                              *)

\* Length(min=1, max=64)
LengthOk(n) == Len(n) >= MinNameLen /\ Len(n) <= MaxNameLen

\* CreateTagSchema().load(g.tag) has no errors
CreateSchemaOk(p) == p.hasName /\ LengthOk(p.name)

UpdateSchemaNoMin(p) == p.hasName => Len(p.name) <= MaxNameLen

\* UpdateTagSchema().load(g.tag) has no errors
UpdateSchemaOk(p) == p.hasName => LengthOk(p.name)

----------------------------------------------------------------------------
(* Error mapping of create and update                                      *)

IsUniqueViolationDuplicateOnly(reason) == Contains(Lower(reason), "duplicate")

\* any(word in reason.lower() for word in ["duplicate", "unique"])
IsUniqueViolation(reason) ==
    \E word \in {"duplicate", "unique"} : Contains(Lower(reason), word)

IntegrityResponseAlways500(reason, code) == DBError(code)

\* the body of `except IntegrityError as ex:` after the rollback
IntegrityResponse(reason, code) ==
    IF IsUniqueViolation(reason) THEN Conflict(reason) ELSE DBError(code)

----------------------------------------------------------------------------
(* Requests, sessions                                                             *)

Request(op, i, p) == [op |-> op, id |-> i, payload |-> p]

NoRequest == Request("none", 0, NoPayload)

\* db.session: the object the handler loaded and the change not yet committed
Session(loaded, pending) == [loaded |-> loaded, pending |-> pending]

FreshSession == Session(0, "none")

\* db.session.rollback()
Rollback(s) == FreshSession

\* errors the store can raise at a commit for reasons outside the request:
\* an IntegrityError on another constraint, or a DatabaseError that is not an
\* IntegrityError (OperationalError: connection lost, lock timeout, ...)
Faults == {"none", "integrity", "operational"}

\* create requests whose row has not been written yet
PostsInFlight ==
    Cardinality({v \in Workers : req[v].op = "post" /\ pc[v] \notin {"idle", "done"}})

Finish(w, r, e, s) ==
    /\ pc' = [pc EXCEPT ![w] = "done"]
    /\ resp' = [resp EXCEPT ![w] = r]
    /\ err' = [err EXCEPT ![w] = e]
    /\ sess' = [sess EXCEPT ![w] = s]

Goto(w, label, s) ==
    /\ pc' = [pc EXCEPT ![w] = label]
    /\ sess' = [sess EXCEPT ![w] = s]
    /\ UNCHANGED <<resp, err>>

Start(w, r, label) ==
    /\ pc[w] \in {"idle", "done"}
    /\ req' = [req EXCEPT ![w] = r]
    /\ pc' = [pc EXCEPT ![w] = label]
    /\ sess' = [sess EXCEPT ![w] = FreshSession]
    /\ resp' = [resp EXCEPT ![w] = NoResp]
    /\ err' = [err EXCEPT ![w] = "none"]
    /\ late' = [late EXCEPT ![w] = r.id \in gone]
    /\ UNCHANGED <<store, nextId, now, dialect, gone, listReq, listResp>>

----------------------------------------------------------------------------
(* A request arrives                                                       *)

BeginPost(w) ==
    /\ nextId + PostsInFlight <= MaxId
    /\ \E p \in Payloads : Start(w, Request("post", 0, p), "post_load")

BeginPut(w) ==
    \E i \in Ids, p \in Payloads : Start(w, Request("put", i, p), "put_load")

BeginDelete(w) ==
    \E i \in Ids : Start(w, Request("delete", i, NoPayload), "delete_get")

BeginGet(w) ==
    \E i \in Ids : Start(w, Request("get", i, NoPayload), "get")

----------------------------------------------------------------------------
(* GET /tags/<id>                                                          *)

GetById(w) ==
    /\ pc[w] = "get"
    /\ LET tag == QueryGet(store, req[w].id) IN
         Finish(w, IF tag = NoRow THEN NotFound(req[w].id) ELSE TagResponse(tag),
                "none", sess[w])
    /\ UNCHANGED <<store, nextId, now, dialect, req, gone, late, listReq, listResp>>

----------------------------------------------------------------------------
(* POST /tags/                                                             *)

\* result = self.post_schema.load(g.tag); if result.errors: 400
PostLoad(w) ==
    /\ pc[w] = "post_load"
    /\ IF CreateSchemaOk(req[w].payload)
         THEN Goto(w, "post_add", sess[w])
         ELSE Finish(w, ValidationError, "none", sess[w])
    /\ UNCHANGED <<store, nextId, now, dialect, req, gone, late, listReq, listResp>>

\* db.session.add(tag)
PostAdd(w) ==
    /\ pc[w] = "post_add"
    /\ Goto(w, "post_commit", Session(0, "insert"))
    /\ UNCHANGED <<store, nextId, now, dialect, req, gone, late, listReq, listResp>>

\* db.session.commit() and the except / else branches
PostCommit(w) ==
    /\ pc[w] = "post_commit"
    /\ \E fault \in Faults :
         LET name == req[w].payload.name
         IN  CASE fault = "operational" ->
                    \* not an IntegrityError: no except clause catches it
                    /\ Finish(w, Unhandled, "database", sess[w])
                    /\ UNCHANGED <<store, nextId>>
               [] fault # "operational" /\ NameTaken(store, name, 0) ->
                    /\ Finish(w, IntegrityResponse(UniqueReason(dialect), "gkpj"),
                              "unique", Rollback(sess[w]))
                    /\ UNCHANGED <<store, nextId>>
               [] fault = "integrity" /\ ~NameTaken(store, name, 0) ->
                    /\ Finish(w, IntegrityResponse(OtherReason(dialect), "gkpj"),
                              "integrity", Rollback(sess[w]))
                    /\ UNCHANGED <<store, nextId>>
               [] OTHER ->
                    /\ store' = store \cup {Row(nextId, name, now, now)}
                    /\ nextId' = nextId + 1
                    /\ Finish(w, TagResponse(Row(nextId, name, now, now)), "none",
                              FreshSession)
    /\ UNCHANGED <<now, dialect, req, gone, late, listReq, listResp>>

----------------------------------------------------------------------------
(* PUT /tags/<id>                                                          *)

\* result = self.put_schema.load(g.tag); if result.errors: 400
PutLoad(w) ==
    /\ pc[w] = "put_load"
    /\ IF UpdateSchemaOk(req[w].payload)
         THEN Goto(w, "put_get", sess[w])
         ELSE Finish(w, ValidationError, "none", sess[w])
    /\ UNCHANGED <<store, nextId, now, dialect, req, gone, late, listReq, listResp>>

\* tag = Tag.query.get(tag_id); if not tag: 404
PutGet(w) ==
    /\ pc[w] = "put_get"
    /\ IF QueryGet(store, req[w].id) = NoRow
         THEN Finish(w, NotFound(req[w].id), "none", sess[w])
         ELSE Goto(w, "put_update", Session(req[w].id, "none"))
    /\ UNCHANGED <<store, nextId, now, dialect, req, gone, late, listReq, listResp>>

\* Tag.update(**data): the row after the provided fields are applied
Updated(row, p, t) ==
    IF p.hasName THEN Row(row.id, p.name, row.created_at, t) ELSE row

\* tag.update(**result.data) and the except / else branches
PutUpdate(w) ==
    /\ pc[w] = "put_update"
    /\ \E fault \in Faults :
         LET p == req[w].payload
             old == QueryGet(store, req[w].id)
             dirty == Session(req[w].id, IF p.hasName THEN "update" ELSE "none")
         IN  CASE fault = "operational" ->
                    /\ Finish(w, Unhandled, "database", dirty)
                    /\ store' = store
               [] fault # "operational" /\ old = NoRow ->
                    \* the row was deleted since it was loaded: the ORM raises
                    \* StaleDataError / ObjectDeletedError, which nothing catches
                    /\ Finish(w, Unhandled, "stale", dirty)
                    /\ store' = store
               [] fault # "operational" /\ old # NoRow /\ p.hasName
                    /\ NameTaken(store, p.name, req[w].id) ->
                    /\ Finish(w, IntegrityResponse(UniqueReason(dialect), "gkpj"),
                              "unique", Rollback(dirty))
                    /\ store' = store
               [] fault = "integrity" /\ old # NoRow
                    /\ ~(p.hasName /\ NameTaken(store, p.name, req[w].id)) ->
                    /\ Finish(w, IntegrityResponse(OtherReason(dialect), "gkpj"),
                              "integrity", Rollback(dirty))
                    /\ store' = store
               [] OTHER ->
                    /\ store' = (store \ {old}) \cup {Updated(old, p, now)}
                    /\ Finish(w, TagResponse(Updated(old, p, now)), "none",
                              FreshSession)
    /\ UNCHANGED <<nextId, now, dialect, req, gone, late, listReq, listResp>>

----------------------------------------------------------------------------
(* DELETE /tags/<id>                                                       *)

\* tag = Tag.query.get(tag_id); if not tag: 404
DeleteGet(w) ==
    /\ pc[w] = "delete_get"
    /\ IF QueryGet(store, req[w].id) = NoRow
         THEN Finish(w, NotFound(req[w].id), "none", sess[w])
         ELSE Goto(w, "delete_commit", Session(req[w].id, "none"))
    /\ UNCHANGED <<store, nextId, now, dialect, req, gone, late, listReq, listResp>>

\* the handler's `except DatabaseError as ex:` clause
DeleteFailed(s, code) == [response |-> DBError(code), session |-> s]

\* tag.delete() and the except / else branches
DeleteCommit(w) ==
    /\ pc[w] = "delete_commit"
    /\ \E fault \in Faults :
         LET marked == Session(req[w].id, "delete") IN
         IF fault # "none"
           THEN LET out == DeleteFailed(marked, IF fault = "integrity"
                                                  THEN "gkpj" ELSE "e3q8")
                IN  /\ Finish(w, out.response,
                              IF fault = "integrity" THEN "integrity" ELSE "database",
                              out.session)
                    /\ UNCHANGED <<store, gone>>
           ELSE /\ store' = {r \in store : r.id # req[w].id}
                /\ gone' = gone \cup {req[w].id}
                /\ Finish(w, NoContent, "none", FreshSession)
    /\ UNCHANGED <<nextId, now, dialect, req, late, listReq, listResp>>

----------------------------------------------------------------------------
(* GET /tags/ : query parameters                                           *)

\* request.args.get(key): a string, or None when the key is absent
Param(has, val) == [has |-> has, val |-> val]

AbsentStr == Param(FALSE, <<>>)

AbsentWord == Param(FALSE, "")

Str(val) == Param(TRUE, val)

ListRequest(name, since, sort, direction, page, pagesize) ==
    [name |-> name, since |-> since, sort |-> sort, direction |-> direction,
     page |-> page, pagesize |-> pagesize]

NoListReq == ListRequest(AbsentStr, AbsentStr, AbsentWord, AbsentWord, AbsentStr, AbsentStr)

ListResponse(st, msg, tags, total) ==
    [status |-> st, message |-> msg, tags |-> tags, total |-> total]

NoListResp == ListResponse(0, "", <<>>, 0)

\* make_error_response(400, ...)
BadRequest(msg) == ListResponse(400, msg, <<>>, 0)

\* an exception raised by the query left the handler: the framework's bare 500
ListUnhandled == ListResponse(500, "Internal Server Error", <<>>, 0)

----------------------------------------------------------------------------
(* Strings                                                                 *)

Digits == <<"0", "1", "2", "3", "4", "5", "6", "7", "8", "9">>

DigitValue(c) ==
    IF \E d \in 1..Len(Digits) : Digits[d] = c
      THEN (CHOOSE d \in 1..Len(Digits) : Digits[d] = c) - 1
      ELSE -1

RECURSIVE DigitsValue(_)
DigitsValue(s) ==
    IF s = <<>> THEN 0
    ELSE 10 * DigitsValue(SubSeq(s, 1, Len(s) - 1)) + DigitValue(s[Len(s)])

\* int(s): an optional sign followed by at least one digit; ValueError otherwise
ParseInt(s) ==
    LET signed == Len(s) > 0 /\ s[1] \in {"-", "+"}
        body == IF signed THEN Tail(s) ELSE s
        ok == Len(body) > 0 /\ \A k \in 1..Len(body) : DigitValue(body[k]) >= 0
    IN  [ok |-> ok,
         value |-> IF ~ok THEN 0
                   ELSE IF signed /\ s[1] = "-" THEN 0 - DigitsValue(body)
                   ELSE DigitsValue(body)]

\* parse_isotime(since): the timestamp a well-formed string denotes (here the
\* one-digit strings), ValueError otherwise
ParseIsotime(s) ==
    IF Len(s) = 1 /\ DigitValue(s[1]) >= 0
      THEN [ok |-> TRUE, t |-> DigitValue(s[1])]
      ELSE [ok |-> FALSE, t |-> 0]

\* code points, for the ordering of names
CharRank(c) ==
    CASE c = "%" -> 37
      [] c = "A" -> 65
      [] c = "_" -> 95
      [] c = "a" -> 97
      [] c = "b" -> 98
      [] OTHER -> 0

RECURSIVE StrLeq(_, _)
StrLeq(x, y) ==
    IF x = <<>> THEN TRUE
    ELSE IF y = <<>> THEN FALSE
    ELSE IF CharRank(Head(x)) # CharRank(Head(y))
           THEN CharRank(Head(x)) < CharRank(Head(y))
    ELSE StrLeq(Tail(x), Tail(y))

FoldCase(c) == IF c = "A" THEN "a" ELSE c

\* whether the engine's LIKE ignores letter case with the default collation
LikeIgnoresCase(d) == d \in {"sqlite", "mysql"}

\* SQL: text LIKE pattern, where % matches any run of characters and _ any
\* one character
RECURSIVE Like(_, _, _)
Like(text, pattern, ci) ==
    IF pattern = <<>> THEN text = <<>>
    ELSE IF Head(pattern) = "%"
           THEN \/ Like(text, Tail(pattern), ci)
                \/ text # <<>> /\ Like(Tail(text), pattern, ci)
    ELSE /\ text # <<>>
         /\ \/ Head(pattern) = "_"
            \/ Head(pattern) = Head(text)
            \/ ci /\ FoldCase(Head(pattern)) = FoldCase(Head(text))
         /\ Like(Tail(text), Tail(pattern), ci)

----------------------------------------------------------------------------
(* GET /tags/ : the query                                                  *)

\* Tag.name.like(''.join(['%', name, '%']))
NamePattern(name) == <<"%">> \o name \o <<"%">>

\* query.filter(exp) for name, query.filter(Tag.updated_at >= since)
Filtered(s, q, d) ==
    { r \in s :
        /\ q.name.has => Like(r.name, NamePattern(q.name.val), LikeIgnoresCase(d))
        /\ q.since.has => r.updated_at >= ParseIsotime(q.since.val).t }

\* isinstance(getattr(Tag, sort, None), InstrumentedAttribute): the mapped
\* columns of Tag
IsInstrumentedAttribute(sort) == sort \in {"id", "name", "created_at", "updated_at"}

\* getattr(sort_attribute, direction)() is a UnaryExpression: among the words
\* of DirectionWords, the column operators that take no argument and build
\* one.  The others raise AttributeError (no such attribute: "bogus") or
\* TypeError (an argument is missing: "like").
IsUnaryOperator(direction) == direction \in {"asc", "desc", "nullsfirst", "nullslast"}

\* whether the engine accepts ORDER BY ... NULLS FIRST | NULLS LAST
AcceptsNullsOrder(d) == d # "mysql"

KeyLeq(r1, r2, sort) ==
    CASE sort = "id" -> r1.id <= r2.id
      [] sort = "name" -> StrLeq(r1.name, r2.name)
      [] sort = "created_at" -> r1.created_at <= r2.created_at
      [] OTHER -> r1.updated_at <= r2.updated_at

\* ORDER BY sort_exp: desc() descends, asc() ascends, and nullsfirst() /
\* nullslast() ascend (ascending is the default, and no column is NULL)
InOrder(r1, r2, sort, direction) ==
    IF direction = "desc" THEN KeyLeq(r2, r1, sort) ELSE KeyLeq(r1, r2, sort)

RECURSIVE Perms(_)
Perms(S) ==
    IF S = {} THEN {<<>>}
    ELSE UNION { { <<x>> \o rest : rest \in Perms(S \ {x}) } : x \in S }

\* the sequences in which the engine may return `rows` under the ORDER BY
\* (rows with equal keys come in any order)
Orderings(rows, sort, direction) ==
    { seq \in Perms(rows) :
        \A a, b \in 1..Len(seq) : a < b => InOrder(seq[a], seq[b], sort, direction) }

TotalAfterPaging(rows, paged) == Len(paged)

\* total = query.count(), taken before offset and limit are applied
Total(rows, paged) == Cardinality(rows)

OffsetFromZero(page, pagesize) ==
    IF page * pagesize < 0 THEN 0 ELSE page * pagesize

\* offset = (page - 1) * pagesize; if offset < 0: offset = 0
Offset(page, pagesize) ==
    IF (page - 1) * pagesize < 0 THEN 0 ELSE (page - 1) * pagesize

Min(x, y) == IF x <= y THEN x ELSE y

\* query.offset(offset).limit(limit).all() with limit >= 0
Slice(seq, offset, limit) == SubSeq(seq, offset + 1, Min(offset + limit, Len(seq)))

\* query.offset(offset).limit(limit).all(): a negative LIMIT means "no limit"
\* to SQLite and is an error for MySQL and PostgreSQL
Paged(seq, offset, limit, d) ==
    IF limit >= 0 THEN [ok |-> TRUE, rows |-> Slice(seq, offset, limit)]
    ELSE IF d = "sqlite" THEN [ok |-> TRUE, rows |-> Slice(seq, offset, Len(seq))]
    ELSE [ok |-> FALSE, rows |-> <<>>]

\* `if page and pagesize:` both are present and not the empty string
Paginates(q) ==
    /\ q.page.has /\ q.page.val # <<>>
    /\ q.pagesize.has /\ q.pagesize.val # <<>>

\* TagResource.get without tag_id: the responses the request can get
ListResponses(s, q, d) ==
    LET sort == IF q.sort.has THEN q.sort.val ELSE "updated_at"
        direction == IF q.direction.has THEN q.direction.val ELSE "desc"
        rows == Filtered(s, q, d)
        page == ParseInt(q.page.val)
        pagesize == ParseInt(q.pagesize.val)
    IN  IF q.since.has /\ ~ParseIsotime(q.since.val).ok
          THEN {BadRequest("since")}
        ELSE IF ~IsInstrumentedAttribute(sort)
          THEN {BadRequest("Unknown sort")}
        ELSE IF ~IsUnaryOperator(direction)
          THEN {BadRequest("Unknown direction")}
        ELSE IF direction \in {"nullsfirst", "nullslast"} /\ ~AcceptsNullsOrder(d)
          THEN {ListUnhandled}
        ELSE IF ~Paginates(q)
          THEN { ListResponse(200, "", seq, Total(rows, seq)) :
                   seq \in Orderings(rows, sort, direction) }
        ELSE IF ~page.ok
          THEN {BadRequest("Unknown page")}
        ELSE IF ~pagesize.ok
          THEN {BadRequest("Unknown pagesize")}
        ELSE { IF Paged(seq, Offset(page.value, pagesize.value), pagesize.value, d).ok
                 THEN ListResponse(200, "",
                        Paged(seq, Offset(page.value, pagesize.value),
                              pagesize.value, d).rows,
                        Total(rows,
                              Paged(seq, Offset(page.value, pagesize.value),
                                    pagesize.value, d).rows))
                 ELSE ListUnhandled :
               seq \in Orderings(rows, sort, direction) }

ListTags ==
    /\ listResp = NoListResp
    /\ listResp' \in ListResponses(store, listReq, dialect)
    /\ UNCHANGED <<store, nextId, now, dialect, pc, req, sess, resp, err, gone, late,
                   listReq>>

----------------------------------------------------------------------------

Init ==
    /\ store = {}
    /\ nextId = 1
    /\ now = 0
    /\ dialect \in Dialects
    /\ pc = [w \in Workers |-> "idle"]
    /\ req = [w \in Workers |-> NoRequest]
    /\ sess = [w \in Workers |-> FreshSession]
    /\ resp = [w \in Workers |-> NoResp]
    /\ err = [w \in Workers |-> "none"]
    /\ gone = {}
    /\ late = [w \in Workers |-> FALSE]
    /\ listReq = NoListReq
    /\ listResp = NoListResp

Next ==
    \/ \E w \in Workers : BeginPost(w)
    \/ \E w \in Workers : BeginPut(w)
    \/ \E w \in Workers : BeginDelete(w)
    \/ \E w \in Workers : BeginGet(w)
    \/ \E w \in Workers : GetById(w)
    \/ \E w \in Workers : PostLoad(w)
    \/ \E w \in Workers : PostAdd(w)
    \/ \E w \in Workers : PostCommit(w)
    \/ \E w \in Workers : PutLoad(w)
    \/ \E w \in Workers : PutGet(w)
    \/ \E w \in Workers : PutUpdate(w)
    \/ \E w \in Workers : DeleteGet(w)
    \/ \E w \in Workers : DeleteCommit(w)

Spec == Init /\ [][Next]_vars

----------------------------------------------------------------------------
(* Two create requests with the same name, both already dispatched, racing *)
(* on a table that does not hold the name.                                 *)

ValidNames == {n \in PayloadNames : Len(n) >= MinNameLen /\ Len(n) <= MaxNameLen}

InitRace ==
    /\ dialect \in Dialects
    /\ \E n \in ValidNames :
         /\ req = [w \in Workers |-> Request("post", 0, [hasName |-> TRUE, name |-> n])]
         /\ \/ store = {} /\ nextId = 1 /\ now = 0
            \/ \E m \in ValidNames \ {n}, t \in Times :
                 store = {Row(1, m, t, t)} /\ nextId = 2 /\ now = t
    /\ pc = [w \in Workers |-> "post_load"]
    /\ sess = [w \in Workers |-> FreshSession]
    /\ resp = [w \in Workers |-> NoResp]
    /\ err = [w \in Workers |-> "none"]
    /\ gone = {}
    /\ late = [w \in Workers |-> FALSE]
    /\ listReq = NoListReq
    /\ listResp = NoListResp

NextRace ==
    \/ \E w \in Workers : PostLoad(w)
    \/ \E w \in Workers : PostAdd(w)
    \/ \E w \in Workers : PostCommit(w)

SpecRace == InitRace /\ [][NextRace]_vars

----------------------------------------------------------------------------
(* One list request against a table the handlers above can have produced   *)

\* names of stored tags: both letter cases and the LIKE wildcards
ListNames == { <<"a">>, <<"A">>, <<"_", "a">> }

RowsFor(i) ==
    { Row(i, n, c, u) : n \in ListNames, c \in Times, u \in Times }

\* tables of k rows with ids 1..k, distinct names, created_at <= updated_at
RECURSIVE Tables(_)
Tables(k) ==
    IF k = 0 THEN {{}}
    ELSE { t \cup {r} : t \in Tables(k - 1),
                        r \in {x \in RowsFor(k) : x.created_at <= x.updated_at} }

ListStores ==
    { t \in UNION { Tables(k) : k \in 0..MaxRows } : UniqueNames(t) }

FilterAlphabet == {"a", "A", "%", "_"}

\* the strings of at most two characters over the alphabet
FilterStrings ==
    {<<>>} \cup { <<c>> : c \in FilterAlphabet }
           \cup { <<c1, c2>> : c1, c2 \in FilterAlphabet }

SinceStrings == { <<"x">> } \cup { <<Digits[t + 1]>> : t \in Times }

SortWords == {"id", "name", "created_at", "bogus"}

DirectionWords == {"asc", "desc", "nullsfirst", "nullslast", "like", "bogus"}

PageStrings ==
    { <<>>, <<"x">>, <<"0">>, <<"1">>, <<"2">>, <<"-", "1">> }

PageParams == {AbsentStr} \cup { Str(x) : x \in PageStrings }

\* requests that filter by name
FilterRequests ==
    { ListRequest(Str(n), AbsentStr, AbsentWord, AbsentWord, AbsentStr, AbsentStr) :
        n \in FilterStrings }

\* requests that filter by since and choose the ordering
SortRequests ==
    { ListRequest(AbsentStr, since, sort, direction, AbsentStr, AbsentStr) :
        since \in {AbsentStr} \cup { Str(x) : x \in SinceStrings },
        sort \in {AbsentWord} \cup { Str(x) : x \in SortWords },
        direction \in {AbsentWord} \cup { Str(x) : x \in DirectionWords } }

\* requests that paginate
PageFilters ==
    { <<AbsentStr, AbsentStr>>, <<Str(<<"a">>), AbsentStr>>,
      <<Str(<<"a">>), Str(<<Digits[MaxTime + 1]>>)>> }

PageRequests ==
    { ListRequest(f[1], f[2], sort, AbsentWord, page, pagesize) :
        f \in PageFilters,
        sort \in {AbsentWord, Str("name")},
        page \in PageParams, pagesize \in PageParams }

ListRequests == FilterRequests \cup SortRequests \cup PageRequests

InitList ==
    /\ dialect \in Dialects
    /\ store \in ListStores
    /\ nextId = Cardinality(store) + 1
    /\ now = MaxTime
    /\ listReq \in ListRequests
    /\ listResp = NoListResp
    /\ pc = [w \in Workers |-> "idle"]
    /\ req = [w \in Workers |-> NoRequest]
    /\ sess = [w \in Workers |-> FreshSession]
    /\ resp = [w \in Workers |-> NoResp]
    /\ err = [w \in Workers |-> "none"]
    /\ gone = {}
    /\ late = [w \in Workers |-> FALSE]

NextList == ListTags

SpecList == InitList /\ [][NextList]_vars

----------------------------------------------------------------------------
(* Claims                                                                  *)

Done(w) == pc[w] = "done"

Mutating == {"post", "put", "delete"}

\* C1: in every reachable state no two stored tags have the same name, and an
\* update that writes the name of another existing tag (the store raises its
\* uniqueness violation) is answered with 409 and leaves the table as it was.
C1_UniqueNames ==
    /\ [](UniqueNames(store))
    /\ [][\A w \in Workers :
            ( /\ pc[w] = "put_update" /\ pc'[w] = "done"
              /\ req[w].payload.hasName
              /\ NameTaken(store, req[w].payload.name, req[w].id)
              /\ err'[w] = "unique" )
            => (resp'[w].status = 409 /\ store' = store)]_vars

C1_Witness ==
    \E w \in Workers :
        /\ Done(w) /\ req[w].op = "put" /\ err[w] = "unique"
        /\ resp[w].status = 409
        /\ NameTaken(store, req[w].payload.name, req[w].id)
        /\ QueryGet(store, req[w].id) # NoRow

\* C2: when both racing creates have returned and the store raised nothing
\* but its uniqueness violation, one of them returned the tag, the other 409,
\* and the table holds exactly one tag with the name.
C2_ExactlyOneWins ==
    ( /\ \A w \in Workers : Done(w)
      /\ \A w \in Workers : err[w] \in {"none", "unique"} )
    => \E w1, w2 \in Workers :
         /\ w1 # w2
         /\ resp[w1].status = 200
         /\ resp[w1].tag.name = req[w1].payload.name
         /\ resp[w2].status = 409
         /\ Cardinality({r \in store : r.name = req[w1].payload.name}) = 1

C2_Witness ==
    \E w1, w2 \in Workers :
        /\ Done(w1) /\ Done(w2)
        /\ resp[w1].status = 200 /\ resp[w2].status = 409
        /\ err[w2] = "unique"

\* C3: whenever the store raised an error during a create, update or delete,
\* the session has been rolled back (holds no pending change) by the time the
\* response is returned.
C3_RolledBackOnError ==
    \A w \in Workers :
        (Done(w) /\ req[w].op \in Mutating /\ err[w] # "none")
        => sess[w].pending = "none"

\* C4: every persistence failure raised during create or update is answered
\* with 409 and the store's reason when it is a uniqueness violation, and with
\* 500 "DB Error" and an error code otherwise.
C4_EveryFailureMapped ==
    \A w \in Workers :
        (Done(w) /\ req[w].op \in {"post", "put"} /\ err[w] # "none")
        => IF err[w] = "unique"
             THEN resp[w].status = 409 /\ resp[w].reason = UniqueReason(dialect)
             ELSE /\ resp[w].status = 500
                  /\ resp[w].message = "DB Error"
                  /\ resp[w].code # ""

\* a payload whose name is empty or longer than 64 characters
BadName(p) == p.hasName /\ (Len(p.name) = 0 \/ Len(p.name) > MaxNameLen)

\* C9: an update of an existing tag that omits name and meets no store error
\* answers 200 with the tag and leaves the table as it was; an update whose
\* name is "" or longer than 64 characters answers 400 and none of its steps
\* changes the table, whether or not the id exists.
C9_PartialUpdate ==
    /\ [](\A w \in Workers :
            (Done(w) /\ req[w].op = "put" /\ BadName(req[w].payload))
            => resp[w].status = 400)
    /\ [][\A w \in Workers :
            /\ ( /\ pc[w] = "put_update" /\ pc'[w] = "done"
                 /\ ~req[w].payload.hasName /\ err'[w] = "none" )
               => /\ resp'[w].status = 200
                  /\ resp'[w].tag = QueryGet(store, req[w].id)
                  /\ store' = store
            /\ ( /\ req[w].op = "put" /\ BadName(req[w].payload)
                 /\ req'[w] = req[w] /\ pc'[w] # pc[w] )
               => store' = store]_vars

C9_Witness ==
    \E w1, w2 \in Workers :
        /\ Done(w1) /\ req[w1].op = "put" /\ ~req[w1].payload.hasName
        /\ resp[w1].status = 200 /\ resp[w1].tag.name # <<>>
        /\ Done(w2) /\ req[w2].op = "put" /\ req[w2].payload.hasName
        /\ req[w2].payload.name = <<>> /\ resp[w2].status = 400
        /\ QueryGet(store, req[w2].id) # NoRow

IsNotFound(w) == resp[w].status = 404 /\ resp[w].about = req[w].id

\* C10 as stated: once a delete has answered 204 the tag is not in the table
\* and every get, update or delete on that id that starts later answers 404
\* naming the id.
C10_LaterAlways404 ==
    /\ \A i \in gone : QueryGet(store, i) = NoRow
    /\ \A w \in Workers :
         (Done(w) /\ late[w] /\ req[w].op \in {"get", "put", "delete"})
         => IsNotFound(w)

\* C10 amended: once a delete has answered 204 the tag is not in the table,
\* its id is not handed out again, every later get or delete on that id and
\* every later update with a valid payload answers 404 naming the id, and a
\* later update with an invalid payload answers 400; a delete on an id that
\* is not in the table answers 404 naming the id and changes no tag.
C10_LaterNotFound ==
    /\ [](\A i \in gone : QueryGet(store, i) = NoRow /\ i < nextId)
    /\ [](\A w \in Workers :
            (Done(w) /\ late[w] /\ req[w].op \in {"get", "put", "delete"})
            => IF req[w].op = "put" /\ BadName(req[w].payload)
                 THEN resp[w].status = 400
                 ELSE IsNotFound(w))
    /\ [][\A w \in Workers :
            (pc[w] = "delete_get" /\ pc'[w] # pc[w] /\ QueryGet(store, req[w].id) = NoRow)
            => /\ resp'[w].status = 404 /\ resp'[w].about = req[w].id
               /\ store' = store]_vars

C10_Witness ==
    \E w1, w2 \in Workers :
        /\ Done(w1) /\ late[w1] /\ req[w1].op = "put" /\ req[w1].payload.hasName
        /\ ~BadName(req[w1].payload) /\ resp[w1].status = 404
        /\ Done(w2) /\ late[w2] /\ req[w2].op = "delete" /\ resp[w2].status = 404
        /\ store # {}

----------------------------------------------------------------------------
(* Claims about GET /tags/                                                 *)

Unpaginated(q) == [q EXCEPT !.page = AbsentStr, !.pagesize = AbsentStr]

RowSet(seq) == { seq[k] : k \in 1..Len(seq) }

\* C5: the total of every successful list response is the number of rows the
\* name and since filters select, which is also the total and the number of
\* tags of the same request without page and pagesize, whatever page and
\* pagesize are.
C5_TotalBeforePaging ==
    listResp.status = 200
    => /\ listResp.total = Cardinality(Filtered(store, listReq, dialect))
       /\ \A r \in ListResponses(store, Unpaginated(listReq), dialect) :
            r.status = 200 /\ r.total = listResp.total /\ Len(r.tags) = listResp.total

C5_Witness ==
    /\ listResp.status = 200
    /\ Paginates(listReq) /\ listReq.name.has
    /\ Len(listResp.tags) < listResp.total
    /\ listResp.total < Cardinality(store)

\* (page - 1) * pagesize, clamped to 0 when negative
ClaimedOffset(q) ==
    LET o == (ParseInt(q.page.val).value - 1) * ParseInt(q.pagesize.val).value
    IN  IF o < 0 THEN 0 ELSE o

\* the rows at positions offset+1 .. offset+pagesize of a filtered, sorted
\* sequence, truncated at its end
IsClaimedPage(tags, q) ==
    \E full \in Orderings(Filtered(store, q, dialect),
                          IF q.sort.has THEN q.sort.val ELSE "updated_at",
                          IF q.direction.has THEN q.direction.val ELSE "desc") :
        tags = SubSeq(full, ClaimedOffset(q) + 1,
                      Min(ClaimedOffset(q) + ParseInt(q.pagesize.val).value, Len(full)))

IntegerPaging(q) ==
    /\ q.page.has /\ ParseInt(q.page.val).ok
    /\ q.pagesize.has /\ ParseInt(q.pagesize.val).ok

AllRowsReturned(tags, q) ==
    /\ RowSet(tags) = Filtered(store, q, dialect)
    /\ Len(tags) = Cardinality(Filtered(store, q, dialect))

\* C6 as stated: a successful list response to integer page and pagesize
\* holds exactly the rows offset+1 .. offset+pagesize of the filtered, sorted
\* sequence, and all filtered rows when page or pagesize is missing.
C6_PageIsSlice ==
    listResp.status = 200
    => /\ IntegerPaging(listReq) => IsClaimedPage(listResp.tags, listReq)
       /\ (~listReq.page.has \/ ~listReq.pagesize.has)
            => AllRowsReturned(listResp.tags, listReq)

\* C6 amended: the same for integer page and integer pagesize >= 0.
C6_PageIsSliceNonNegative ==
    listResp.status = 200
    => /\ (IntegerPaging(listReq) /\ ParseInt(listReq.pagesize.val).value >= 0)
            => IsClaimedPage(listResp.tags, listReq)
       /\ (~listReq.page.has \/ ~listReq.pagesize.has)
            => AllRowsReturned(listResp.tags, listReq)

C6_Witness ==
    /\ listResp.status = 200
    /\ IntegerPaging(listReq)
    /\ ParseInt(listReq.page.val).value = 2
    /\ ParseInt(listReq.pagesize.val).value = 1
    /\ Len(listResp.tags) = 1
    /\ listResp.total = 2

\* C7: a list request whose direction is given and is neither asc nor desc
\* (its since and sort parameters being acceptable) is answered with 400
\* "Unknown direction" and no tags.
C7_BadDirectionRejected ==
    ( /\ listResp # NoListResp
      /\ listReq.direction.has /\ listReq.direction.val \notin {"asc", "desc"}
      /\ listReq.since.has => ParseIsotime(listReq.since.val).ok
      /\ ~listReq.sort.has \/ listReq.sort.val \in {"id", "name", "created_at", "updated_at"} )
    => ( /\ listResp.status = 400
         /\ listResp.message = "Unknown direction"
         /\ listResp.tags = <<>> )

\* sub occurs in text as a literal, case-sensitive substring
IsSubstring(sub, text) ==
    \E k \in 0..(Len(text) - Len(sub)) : SubSeq(text, k + 1, k + Len(sub)) = sub

\* C8: a successful list request with a name parameter and no pagination
\* returns exactly the tags whose name contains the value as a literal,
\* case-sensitive substring.
C8_LiteralSubstring ==
    ( /\ listResp.status = 200
      /\ listReq.name.has /\ ~listReq.since.has /\ ~Paginates(listReq) )
    => RowSet(listResp.tags) = { r \in store : IsSubstring(listReq.name.val, r.name) }

====
